---- MODULE Spec2Model ----
(***************************************************************************)
(* Model of the match action route, router.post('/action'), of the        *)
(* matching routes (src/unnamed/part_000, lines 24-84).                    *)
(*                                                                         *)
(* The handler is an async function: it runs synchronously between its     *)
(* awaits and other requests interleave at each await.  Each request       *)
(* holds its own in-memory Match document; match.save() inserts a new      *)
(* document or writes back the paths the request changed.                  *)
(*                                                                         *)
(* The collaborators the handler awaits are taken by their outcomes:       *)
(* calculateCompatibility resolves with a result object, and               *)
(* generateMatchAnalysis, which the service file does not define, either   *)
(* resolves with a text or throws.                                         *)
(*                                                                         *)
(* Two further parts of the same file are modelled with their own          *)
(* specifications: the rateLimiter middleware (lines 1177-1199, RLSpec)    *)
(* and MatchingService.checkDealBreakers / calculateCompatibility          *)
(* (lines 117-170, EvalSpec).  EvalSpec also calls the two trait scorers   *)
(* (lines 134-151 and 686-704) and findMatches (lines 194-216).  LiveSpec  *)
(* is the route handled one request at a time with the fairness of the     *)
(* awaits that answer.                                                     *)
(***************************************************************************)
EXTENDS Integers, Sequences, FiniteSets, TLC

\* ---------------------------------------------------------------- bounds
MaxInFlight == 2   \* request slots: handlers that may be between awaits at once
MaxActions == 4    \* requests issued in one behaviour
MaxTime == 4       \* last value of the clock read by Date.now()
MaxRequests == 2   \* the limiter's maxRequests argument
WindowMs == 2      \* the limiter's windowMs argument

\* ----------------------------------------------------------- value sets
Users == {"A", "B"}
Actions == {"like", "pass", "super_like"}
Unset == "unset"
Scores == {65, 95}
Insights == {"null", "text"}
Slots == 1..MaxInFlight
Keys == {"k1", "k2"}

\* A Match document before anything is assigned to it.  The schema
\* (models/Match) leaves both action slots unset and status pending.
NoScore == [compatibility |-> 0, aiInsight |-> "null"]
EmptyDoc ==
    [id |-> 0, user1 |-> "", user2 |-> "",
     user1Action |-> Unset, user2Action |-> Unset, status |-> "pending",
     compatibilityScore |-> NoScore, matchType |-> "potential",
     aiAnalysis |-> "absent"]

IdleReq ==
    [pc |-> "idle", userId |-> "", targetUserId |-> "", action |-> "",
     match |-> EmptyDoc, orig |-> EmptyDoc, isNew |-> FALSE,
     res |-> "none", enr |-> "none"]

VARIABLES
    matches,   \* the Match collection: sequence of documents, id = index
    req,       \* per slot: the handler's position and local variables
    issued,    \* number of requests received so far
    hist,      \* log of recorded actions: who, what, the document as persisted
    calls,     \* collaborator calls made so far: compat, enrich
    requests,  \* the limiter's Map: key -> admitted timestamps kept
    now,       \* the clock, Date.now()
    obs,       \* what a caller of the limiter has observed so far
    ev         \* one call of MatchingService: its arguments and its result

routeVars == <<matches, req, issued, hist, calls>>
rlVars == <<requests, now, obs>>
evVars == <<ev>>

vars == <<matches, req, issued, hist, calls, requests, now, obs, ev>>

\* ------------------------------------------------------------- helpers

\* Match.findOne({$or: [{user1: u, user2: t}, {user1: t, user2: u}]})
PairMatches(m, u, t) ==
    {i \in 1..Len(m) : \/ (m[i].user1 = u /\ m[i].user2 = t)
                       \/ (m[i].user1 = t /\ m[i].user2 = u)}

\* compatibilityScore >= n where compatibilityScore is the object returned
\* by calculateCompatibility: an object compared with a number converts to
\* NaN, and every comparison with NaN is false.
ObjectGE(cs, n) == FALSE

MatchTypeOf(cs) ==
    IF ObjectGE(cs, 90) THEN "perfect"
    ELSE IF ObjectGE(cs, 80) THEN "excellent"
    ELSE IF ObjectGE(cs, 70) THEN "good"
    ELSE "potential"

\* new Match({user1: userId, user2: targetUserId, compatibilityScore, matchType})
NewMatch(u, t, cs) ==
    [EmptyDoc EXCEPT !.user1 = u, !.user2 = t,
                     !.compatibilityScore = cs, !.matchType = MatchTypeOf(cs)]

\* Mutation of SetAction: the acting side is ignored, user1Action is written.
SetActionAlwaysUser1(doc, u, a) ==
    [doc EXCEPT !.user1Action = a]

\* Mutation of SetAction: the two slots are taken the wrong way round.
SetActionOtherSlot(doc, u, a) ==
    IF doc.user1 = u THEN [doc EXCEPT !.user2Action = a]
                     ELSE [doc EXCEPT !.user1Action = a]

\* "Update user action"
SetAction(doc, u, a) ==
    IF doc.user1 = u THEN [doc EXCEPT !.user1Action = a]
                     ELSE [doc EXCEPT !.user2Action = a]

\* Mutation of DeriveStatus: the pass branch is lost.
DeriveStatusNoReject(doc, a) ==
    IF doc.user1Action = "like" /\ doc.user2Action = "like" THEN "mutual"
    ELSE doc.status

\* "Check for mutual match"
DeriveStatus(doc, a) ==
    IF doc.user1Action = "like" /\ doc.user2Action = "like" THEN "mutual"
    ELSE IF a = "pass" THEN "rejected"
    ELSE doc.status

\* The synchronous part between obtaining the document and match.save()
ApplyAction(doc, u, a) ==
    LET d == SetAction(doc, u, a)
    IN  [d EXCEPT !.status = DeriveStatus(d, a)]

\* Paths of the document a save writes: those assigned a value that
\* differs from the one loaded.
Paths == {"user1Action", "user2Action", "status", "aiAnalysis"}
Modified(doc, orig) == {p \in Paths : doc[p] # orig[p]}

Patch(stored, doc, orig) ==
    [f \in DOMAIN stored |->
        IF f \in Modified(doc, orig) THEN doc[f] ELSE stored[f]]

\* Mutation of SaveDoc: a document that became mutual is not written until
\* the analysis has been obtained.
SaveDocDeferMutual(m, r) ==
    IF r.pc = "save" /\ r.match.status = "mutual" THEN m
    ELSE IF r.isNew THEN Append(m, [r.match EXCEPT !.id = Len(m) + 1])
    ELSE [m EXCEPT ![r.match.id] = Patch(m[r.match.id], r.match, r.orig)]

\* match.save(): the collection after request r saved its document
SaveDoc(m, r) ==
    IF r.isNew THEN Append(m, [r.match EXCEPT !.id = Len(m) + 1])
    ELSE [m EXCEPT ![r.match.id] = Patch(m[r.match.id], r.match, r.orig)]

SavedId(m, r) == IF r.isNew THEN Len(m) + 1 ELSE r.match.id

InFlight == {s \in Slots : req[s].pc \notin {"idle", "done"}}

\* Slots are anonymous: an arriving request takes the lowest free one.
FreeSlot(s) ==
    /\ s \notin InFlight
    /\ \A q \in Slots \ InFlight : s <= q

\* ------------------------------------------------------- rate limiter

\* Nothing observed yet: no call made, nothing admitted for any key.
NoObs ==
    [called |-> FALSE, key |-> "", at |-> 0, ok |-> FALSE,
     prior |-> << >>, deniedBefore |-> FALSE,
     admitted |-> [k \in Keys |-> << >>],
     denied |-> [k \in Keys |-> FALSE],
     seen |-> [k \in Keys |-> -1]]

\* Mutation of UserRequests: the key is not looked at, the entry read is
\* that of some key of the Map.
UserRequestsAnyKey(reqs, k) ==
    IF DOMAIN reqs = {} THEN << >>
    ELSE reqs[CHOOSE q \in DOMAIN reqs : TRUE]

\* requests.get(key) || []
UserRequests(reqs, k) == IF k \in DOMAIN reqs THEN reqs[k] ELSE << >>

\* Mutation of ValidRequests: entries are kept by fixed bucket, those of
\* the bucket of length WindowMs that now falls in.
ValidRequestsSameBucket(userRequests, t) ==
    SelectSeq(userRequests, LAMBDA time : time \div WindowMs = t \div WindowMs)

\* userRequests.filter(time => time > windowStart), windowStart = now - windowMs
ValidRequests(userRequests, t) ==
    SelectSeq(userRequests, LAMBDA time : time > t - WindowMs)

\* the 429 test negated: validRequests.length >= maxRequests
Admits(validRequests) == ~(Len(validRequests) >= MaxRequests)

\* Mutation of Stored: a denied call is recorded as well.
StoredAlsoDenied(reqs, k, t) ==
    LET valid == ValidRequests(UserRequests(reqs, k), t)
    IN  [q \in DOMAIN reqs \cup {k} |->
            IF q = k THEN Append(IF Admits(valid) THEN valid
                                 ELSE UserRequests(reqs, k), t)
            ELSE reqs[q]]

\* Mutation of Stored: the entry written holds the new timestamp only.
StoredOnlyNow(reqs, k, t) ==
    IF Admits(ValidRequests(UserRequests(reqs, k), t))
    THEN [q \in DOMAIN reqs \cup {k} |-> IF q = k THEN <<t>> ELSE reqs[q]]
    ELSE reqs

\* The Map after the middleware ran for key k at time t: on admission
\* validRequests.push(now); requests.set(key, validRequests), and on a 429
\* nothing is written.
Stored(reqs, k, t) ==
    LET valid == ValidRequests(UserRequests(reqs, k), t)
    IN  IF Admits(valid)
        THEN [q \in DOMAIN reqs \cup {k} |->
                 IF q = k THEN Append(valid, t) ELSE reqs[q]]
        ELSE reqs

\* --------------------------------------------------- MatchingService

Tiers == {"free", "premium"}
PersonalityScores == {40, 100}
LifestyleScores == {75, 100}

\* user.dealBreakers: absent, or the three flags
DealBreakerSets ==
    {[defined |-> FALSE, smoking |-> FALSE, hasKids |-> FALSE, pets |-> FALSE]}
    \cup [defined : {TRUE}, smoking : BOOLEAN, hasKids : BOOLEAN, pets : BOOLEAN]

\* user.lifestyle: absent, or with its smoking fact
Lifestyles ==
    {[defined |-> FALSE, smoking |-> FALSE]}
    \cup [defined : {TRUE}, smoking : BOOLEAN]

UserProfiles ==
    [dealBreakers : DealBreakerSets, lifestyle : Lifestyles,
     hasKids : BOOLEAN, hasPets : BOOLEAN, subscriptionTier : {"free"}]

NoProfile ==
    [dealBreakers |-> [defined |-> FALSE, smoking |-> FALSE,
                       hasKids |-> FALSE, pets |-> FALSE],
     lifestyle |-> [defined |-> FALSE, smoking |-> FALSE],
     hasKids |-> FALSE, hasPets |-> FALSE, subscriptionTier |-> "free"]

NoResult == [compatibilityX10 |-> 0, aiInsight |-> "null"]

\* The six traits, in the order of the weights object of both scorers.
TraitOrder ==
    <<"openness", "conscientiousness", "extraversion", "agreeableness",
      "neuroticism", "emotionalIntelligence">>
TraitNames == {TraitOrder[i] : i \in 1..Len(TraitOrder)}

\* A trait the profile does not carry: reading it gives undefined.
Absent == -1

\* Trait profiles: the five required traits at the ends of the range, the
\* optional emotionalIntelligence absent, at an end or inside the range.
RequiredValues == {0, 100}
OptionalValues == {Absent, 0, 40, 100}
TraitProfiles ==
    {t \in [TraitNames -> OptionalValues] :
        \A n \in TraitNames \ {"emotionalIntelligence"} :
            t[n] \in RequiredValues}

NoTraits == [n \in TraitNames |-> 0]

\* A JavaScript number, in hundredths of a point, or NaN.
Num(x) == [nan |-> FALSE, x100 |-> x]
NaN == [nan |-> TRUE, x100 |-> 0]

\* The users collection as findMatches sees it: per user whether it is
\* active, its distance from the seeker and the score calculateCompatibility
\* gives for it (tenths of a point).
UserIds == {1, 2, 3, 4}
Distances == {1, 3, 9}
MaxDistances == {5}
FinalScores == {700, 800, 900}
Limits == {1, 2, 10}
SeekerIds == {2}
Attributes == [isActive : BOOLEAN, dist : Distances, score : FinalScores]

\* The collection in which the users other than the seeker have the
\* attributes attrs; the seeker is active and at distance 0 from itself.
UsersWith(userId, attrs) ==
    {[id |-> userId, isActive |-> TRUE, dist |-> 0, score |-> 900]}
    \cup {[id |-> i, isActive |-> attrs[i].isActive, dist |-> attrs[i].dist,
           score |-> attrs[i].score] : i \in DOMAIN attrs}

NoEval ==
    [pc |-> "idle", user1 |-> NoProfile, user2 |-> NoProfile,
     p |-> 0, l |-> 0, d12 |-> 0, d21 |-> 0, result |-> NoResult,
     outcome |-> "none", aiCalled |-> FALSE,
     traits1 |-> NoTraits, traits2 |-> NoTraits, s12 |-> Num(0), s21 |-> Num(0),
     userId |-> 0, maxDistance |-> 0, limit |-> 0, users |-> {},
     potentialMatches |-> << >>, found |-> << >>]

\* user.dealBreakers || {} : the flags of an absent set are all falsy
DealBreakersOf(u) == u.dealBreakers

\* user.lifestyle?.smoking
Smoking(u) == u.lifestyle.defined /\ u.lifestyle.smoking

\* Mutation of CheckDealBreakers: the second kids test reads the same user
\* as the first.
CheckDealBreakersKidsOneWay(user1, user2) ==
    LET dealBreakers1 == DealBreakersOf(user1)
        dealBreakers2 == DealBreakersOf(user2)
    IN  IF dealBreakers1.smoking /\ Smoking(user2) THEN 0
        ELSE IF dealBreakers2.smoking /\ Smoking(user1) THEN 0
        ELSE IF dealBreakers1.hasKids /\ user2.hasKids THEN 0
        ELSE IF dealBreakers2.hasKids /\ user2.hasKids THEN 0
        ELSE IF dealBreakers1.pets /\ user2.hasPets THEN 0
        ELSE IF dealBreakers2.pets /\ user1.hasPets THEN 0
        ELSE 100

\* checkDealBreakers(user1, user2)
CheckDealBreakers(user1, user2) ==
    LET dealBreakers1 == DealBreakersOf(user1)
        dealBreakers2 == DealBreakersOf(user2)
    IN  IF dealBreakers1.smoking /\ Smoking(user2) THEN 0
        ELSE IF dealBreakers2.smoking /\ Smoking(user1) THEN 0
        ELSE IF dealBreakers1.hasKids /\ user2.hasKids THEN 0
        ELSE IF dealBreakers2.hasKids /\ user1.hasKids THEN 0
        ELSE IF dealBreakers1.pets /\ user2.hasPets THEN 0
        ELSE IF dealBreakers2.pets /\ user1.hasPets THEN 0
        ELSE 100

\* Mutation of Blend: a veto zeroes the whole score.
BlendVetoZeroes(personalityScore, lifestyleScore, dealBreakerScore) ==
    IF dealBreakerScore = 0 THEN 0
    ELSE personalityScore * 6 + lifestyleScore * 3 + dealBreakerScore * 1

\* personalityScore * 0.6 + lifestyleScore * 0.3 + dealBreakerScore * 0.1,
\* in tenths of a point
Blend(personalityScore, lifestyleScore, dealBreakerScore) ==
    personalityScore * 6 + lifestyleScore * 3 + dealBreakerScore * 1

\* What the chat completion call can do: answer with a text, reject, run
\* into the client's time limit (a rejection as well), or answer with a
\* body that has no choices[0].message (reading .content throws).
AiOutcomes == {"text", "error", "timeout", "malformed"}

\* getAICompatibilityInsight: the try returns the content, the catch logs
\* and returns null.
GetAICompatibilityInsight(outcome) ==
    IF outcome = "text" THEN "text" ELSE "null"

\* Mutation of InsightAttempted: the tier is not looked at.
InsightAttemptedAnyTier(user1) == TRUE

\* if (user1.subscriptionTier !== 'free')
InsightAttempted(user1) == user1.subscriptionTier # "free"

\* calculateCompatibility(user1, user2), given the two scores it obtains
\* from analyzePersonalityTraits and analyzeLifestyle and what the insight
\* call gives ("null" when it failed)
CalculateCompatibility(user1, user2, ps, ls, ai) ==
    LET compatibility == Blend(ps, ls, CheckDealBreakers(user1, user2))
    IN  IF InsightAttempted(user1)
        THEN [compatibilityX10 |-> compatibility, aiInsight |-> ai]
        ELSE [compatibilityX10 |-> compatibility, aiInsight |-> "null"]

Abs(x) == IF x < 0 THEN -x ELSE x
Max(x, y) == IF x > y THEN x ELSE y
Min(x, y) == IF x < y THEN x ELSE y

\* The sum over the traits of score[trait] * weights[trait], taken in the
\* order of the for-in loop.
WeightedSum(score, weights) ==
    LET acc[i \in 0..Len(TraitOrder)] ==
            IF i = 0 THEN 0
            ELSE acc[i - 1] + score[TraitOrder[i]] * weights[TraitOrder[i]]
    IN  acc[Len(TraitOrder)]

\* weights of analyzePersonalityTraits, in hundredths
MatchingWeights ==
    [openness |-> 15, conscientiousness |-> 20, extraversion |-> 18,
     agreeableness |-> 22, neuroticism |-> 15, emotionalIntelligence |-> 10]

\* weights of calculatePersonalityCompatibility, in hundredths
DetailedWeights ==
    [openness |-> 15, conscientiousness |-> 20, extraversion |-> 18,
     agreeableness |-> 25, neuroticism |-> 12, emotionalIntelligence |-> 10]

\* Mutation of AnalyzePersonalityTraits: the difference is taken signed.
AnalyzePersonalityTraitsSigned(traits1, traits2) ==
    IF \E n \in TraitNames : traits1[n] = Absent \/ traits2[n] = Absent
    THEN NaN
    ELSE Num(Max(0, WeightedSum(
             [n \in TraitNames |-> 100 - (traits1[n] - traits2[n])],
             MatchingWeights)))

\* MatchingService.analyzePersonalityTraits(traits1, traits2):
\* score += (1 - |t1 - t2| / 100) * weight, then Math.max(0, score * 100).
\* undefined - x is NaN, NaN stays NaN through Math.abs, the sum and
\* Math.max.
AnalyzePersonalityTraits(traits1, traits2) ==
    IF \E n \in TraitNames : traits1[n] = Absent \/ traits2[n] = Absent
    THEN NaN
    ELSE Num(Max(0, WeightedSum(
             [n \in TraitNames |-> 100 - Abs(traits1[n] - traits2[n])],
             MatchingWeights)))

\* traits[trait] || 50 : undefined and 0 are both falsy
Or50(v) == IF v = Absent \/ v = 0 THEN 50 ELSE v

\* AIService.calculatePersonalityCompatibility(traits1, traits2):
\* totalScore += Math.max(0, 100 - diff * 2) * weight
CalculatePersonalityCompatibility(traits1, traits2) ==
    Num(WeightedSum(
        [n \in TraitNames |->
            Max(0, 100 - Abs(Or50(traits1[n]) - Or50(traits2[n])) * 2)],
        DetailedWeights))

\* Mutation of Find: the query has no $maxDistance.
FindAnyDistance(users, userId, maxDistance) ==
    {u \in users : u.id # userId /\ u.isActive}

\* User.find({_id: {$ne: userId}, isActive: true,
\*            location: {$near: user.location, $maxDistance: maxDistance}})
Find(users, userId, maxDistance) ==
    {u \in users : u.id # userId /\ u.isActive /\ u.dist <= maxDistance}

\* The orders in which $near may hand over the documents found: nearest
\* first, documents at the same distance in any order.
NearOrders(found) ==
    {q \in [1..Cardinality(found) -> found] :
        /\ \A i, j \in DOMAIN q : i < j => q[i] # q[j] /\ q[i].dist <= q[j].dist}

\* matches.sort((a, b) => b.compatibility - a.compatibility): the sort is
\* stable, entries of equal compatibility keep their order.
SortByCompatibility(matchList) ==
    LET Insert(sorted, m) ==
            LET k == Cardinality({i \in DOMAIN sorted :
                                     sorted[i].score >= m.score})
            IN  SubSeq(sorted, 1, k) \o <<m>> \o SubSeq(sorted, k + 1, Len(sorted))
        acc[i \in 0..Len(matchList)] ==
            IF i = 0 THEN << >> ELSE Insert(acc[i - 1], matchList[i])
    IN  acc[Len(matchList)]

\* findMatches after the query: keep compatibility > 70, sort, slice.
FindMatches(potentialMatches, limit) ==
    LET kept   == SelectSeq(potentialMatches, LAMBDA m : m.score > 700)
        sorted == SortByCompatibility(kept)
    IN  SubSeq(sorted, 1, Min(limit, Len(sorted)))

\* --------------------------------------------------------------- Init
Init ==
    /\ matches = << >>
    /\ req = [s \in Slots |-> IdleReq]
    /\ issued = 0
    /\ hist = << >>
    /\ calls = [compat |-> 0, enrich |-> 0]
    /\ requests = << >>
    /\ now = 0
    /\ obs = NoObs
    /\ ev = NoEval

\* ------------------------------------------------------------ actions

\* Mutation of SelfAction: the self check is missing and the request goes on
\* to Match.findOne like any other.
SelfActionProceeds(s, limit) ==
    /\ FreeSlot(s)
    /\ Cardinality(InFlight) < limit
    /\ issued < MaxActions
    /\ \E u \in Users, a \in Actions :
          req' = [req EXCEPT ![s] =
                    [IdleReq EXCEPT !.pc = "find", !.userId = u,
                                    !.targetUserId = u, !.action = a]]
    /\ issued' = issued + 1
    /\ UNCHANGED <<matches, hist, calls, rlVars, evVars>>

\* A request arrives for which userId === targetUserId: 400, nothing else.
SelfAction(s, limit) ==
    /\ FreeSlot(s)
    /\ Cardinality(InFlight) < limit
    /\ issued < MaxActions
    /\ \E u \in Users, a \in Actions :
          req' = [req EXCEPT ![s] =
                    [IdleReq EXCEPT !.pc = "done", !.userId = u,
                                    !.targetUserId = u, !.action = a,
                                    !.res = "400"]]
    /\ issued' = issued + 1
    /\ UNCHANGED <<matches, hist, calls, rlVars, evVars>>

\* A request arrives; the handler runs up to the await of Match.findOne.
Receive(s, limit) ==
    /\ FreeSlot(s)
    /\ Cardinality(InFlight) < limit
    /\ issued < MaxActions
    /\ \E u \in Users, t \in Users, a \in Actions :
          /\ u # t
          /\ req' = [req EXCEPT ![s] =
                       [IdleReq EXCEPT !.pc = "find", !.userId = u,
                                       !.targetUserId = t, !.action = a]]
    /\ issued' = issued + 1
    /\ UNCHANGED <<matches, hist, calls, rlVars, evVars>>

\* findOne resolves with a document: the handler applies the action to its
\* copy and calls match.save().
FindExisting(s) ==
    LET r == req[s] IN
    /\ r.pc = "find"
    /\ \E i \in PairMatches(matches, r.userId, r.targetUserId) :
          req' = [req EXCEPT ![s] =
                    [r EXCEPT !.pc = "save", !.orig = matches[i],
                              !.match = ApplyAction(matches[i], r.userId, r.action),
                              !.isNew = FALSE]]
    /\ UNCHANGED <<matches, issued, hist, calls, rlVars, evVars>>

\* findOne resolves with null: the handler calls calculateCompatibility.
FindNone(s) ==
    LET r == req[s] IN
    /\ r.pc = "find"
    /\ PairMatches(matches, r.userId, r.targetUserId) = {}
    /\ req' = [req EXCEPT ![s] = [r EXCEPT !.pc = "compat"]]
    /\ calls' = [calls EXCEPT !.compat = @ + 1]
    /\ UNCHANGED <<matches, issued, hist, rlVars, evVars>>

\* calculateCompatibility resolves: new Match, the action is applied, save.
CompatReturn(s) ==
    LET r == req[s] IN
    /\ r.pc = "compat"
    /\ \E c \in Scores, ins \in Insights :
          LET cs == [compatibility |-> c, aiInsight |-> ins]
              d  == NewMatch(r.userId, r.targetUserId, cs)
          IN  req' = [req EXCEPT ![s] =
                        [r EXCEPT !.pc = "save", !.orig = d,
                                  !.match = ApplyAction(d, r.userId, r.action),
                                  !.isNew = TRUE]]
    /\ UNCHANGED <<matches, issued, hist, calls, rlVars, evVars>>

\* The first match.save() resolves; a mutual document goes on to
\* generateMatchAnalysis, any other is answered "Action recorded".
Save(s) ==
    LET r  == req[s]
        id == SavedId(matches, r)
        d  == [r.match EXCEPT !.id = id]
    IN
    /\ r.pc = "save"
    /\ matches' = SaveDoc(matches, r)
    /\ hist' = Append(hist, [user |-> r.userId, action |-> r.action,
                             created |-> r.isNew, rec |-> matches'[id]])
    /\ req' = [req EXCEPT ![s] =
                 IF r.match.status = "mutual"
                 THEN [r EXCEPT !.pc = "enrich", !.match = d, !.orig = d,
                                !.isNew = FALSE]
                 ELSE [r EXCEPT !.pc = "done", !.match = d, !.orig = d,
                                !.isNew = FALSE, !.res = "recorded"]]
    /\ calls' = IF r.match.status = "mutual"
                THEN [calls EXCEPT !.enrich = @ + 1] ELSE calls
    /\ UNCHANGED <<issued, rlVars, evVars>>

\* generateMatchAnalysis resolves: aiAnalysis is assigned, second save.
EnrichOk(s) ==
    LET r == req[s] IN
    /\ r.pc = "enrich"
    /\ req' = [req EXCEPT ![s] =
                 [r EXCEPT !.pc = "save2", !.enr = "ok",
                           !.match = [r.match EXCEPT !.aiAnalysis = "text"]]]
    /\ UNCHANGED <<matches, issued, hist, calls, rlVars, evVars>>

\* generateMatchAnalysis rejects: the handler's catch answers 500.
EnrichFail(s) ==
    LET r == req[s] IN
    /\ r.pc = "enrich"
    /\ req' = [req EXCEPT ![s] =
                 [r EXCEPT !.pc = "done", !.enr = "failed", !.res = "500"]]
    /\ UNCHANGED <<matches, issued, hist, calls, rlVars, evVars>>

\* The second match.save() resolves; the handler answers "It's a match!".
Save2(s) ==
    LET r == req[s] IN
    /\ r.pc = "save2"
    /\ matches' = SaveDoc(matches, r)
    /\ req' = [req EXCEPT ![s] =
                 [r EXCEPT !.pc = "done", !.orig = r.match, !.res = "matched"]]
    /\ UNCHANGED <<issued, hist, calls, rlVars, evVars>>

Step(s) ==
    \/ FindExisting(s)
    \/ FindNone(s)
    \/ CompatReturn(s)
    \/ Save(s)
    \/ EnrichOk(s)
    \/ EnrichFail(s)
    \/ Save2(s)

\* Requests interleave at their awaits.
Next ==
    \E s \in Slots :
        \/ SelfAction(s, MaxInFlight)
        \/ Receive(s, MaxInFlight)
        \/ Step(s)

Spec == Init /\ [][Next]_vars

\* Requests arrive one after the other: each is answered before the next.
SeqNext ==
    \E s \in Slots :
        \/ SelfAction(s, 1)
        \/ Receive(s, 1)
        \/ Step(s)

SeqSpec == Init /\ [][SeqNext]_vars

\* ------------------------------------------------- rate limiter actions

\* Time passes between two calls of the middleware.
Tick ==
    /\ now < MaxTime
    /\ now' = now + 1
    /\ UNCHANGED <<requests, obs, routeVars, evVars>>

\* The middleware returned by rateLimiter runs for a request with key k.
\* It has no await: it runs to its end before any other call starts.
RateLimit(k) ==
    LET valid == ValidRequests(UserRequests(requests, k), now)
        ok    == Admits(valid)
    IN
    /\ requests' = Stored(requests, k, now)
    /\ obs' = [called |-> TRUE, key |-> k, at |-> now, ok |-> ok,
               prior |-> obs.admitted[k],
               deniedBefore |-> obs.denied[k],
               admitted |-> IF ok
                            THEN [obs.admitted EXCEPT ![k] = Append(@, now)]
                            ELSE obs.admitted,
               denied |-> [obs.denied EXCEPT ![k] = ~ok],
               seen |-> [obs.seen EXCEPT ![k] = now]]
    /\ UNCHANGED <<now, routeVars, evVars>>

RLNext ==
    \/ Tick
    \/ \E k \in Keys : RateLimit(k)

RLSpec == Init /\ [][RLNext]_vars

\* ---------------------------------------------- MatchingService actions

\* checkDealBreakers is called for a pair of users, in both orders.
CheckPair ==
    /\ ev.pc = "idle"
    /\ \E u1 \in UserProfiles, u2 \in UserProfiles :
          ev' = [NoEval EXCEPT !.pc = "checked", !.user1 = u1, !.user2 = u2,
                               !.d12 = CheckDealBreakers(u1, u2),
                               !.d21 = CheckDealBreakers(u2, u1)]
    /\ UNCHANGED <<routeVars, rlVars>>

\* calculateCompatibility is called for a pair of users; the personality
\* and lifestyle scores and the outcome of the insight call are inputs.
Calculate ==
    /\ ev.pc = "idle"
    /\ \E u1 \in UserProfiles, u2 \in UserProfiles, tier \in Tiers,
          ps \in PersonalityScores, ls \in LifestyleScores, o \in AiOutcomes :
          LET user1 == [u1 EXCEPT !.subscriptionTier = tier] IN
          ev' = [NoEval EXCEPT !.pc = "evaluated", !.user1 = user1, !.user2 = u2,
                               !.p = ps, !.l = ls,
                               !.d12 = CheckDealBreakers(user1, u2),
                               !.outcome = o,
                               !.aiCalled = InsightAttempted(user1),
                               !.result = CalculateCompatibility(user1, u2, ps, ls,
                                              GetAICompatibilityInsight(o))]
    /\ UNCHANGED <<routeVars, rlVars>>

\* analyzePersonalityTraits is called for two trait profiles, in both orders.
Analyze ==
    /\ ev.pc = "idle"
    /\ \E a \in TraitProfiles, b \in TraitProfiles :
          ev' = [NoEval EXCEPT !.pc = "analyzed", !.traits1 = a, !.traits2 = b,
                               !.s12 = AnalyzePersonalityTraits(a, b),
                               !.s21 = AnalyzePersonalityTraits(b, a)]
    /\ UNCHANGED <<routeVars, rlVars>>

\* calculatePersonalityCompatibility is called for two trait profiles, in
\* both orders.
Detail ==
    /\ ev.pc = "idle"
    /\ \E a \in TraitProfiles, b \in TraitProfiles :
          ev' = [NoEval EXCEPT !.pc = "detailed", !.traits1 = a, !.traits2 = b,
                               !.s12 = CalculatePersonalityCompatibility(a, b),
                               !.s21 = CalculatePersonalityCompatibility(b, a)]
    /\ UNCHANGED <<routeVars, rlVars>>

\* findMatches(userId, limit) runs over a users collection: the query, then
\* the loop, the sort and the slice.
Discover ==
    /\ ev.pc = "idle"
    /\ \E userId \in SeekerIds, maxDistance \in MaxDistances, limit \in Limits :
          \E attrs \in [UserIds \ {userId} -> Attributes] :
             LET users == UsersWith(userId, attrs) IN
             \E potentialMatches \in NearOrders(Find(users, userId, maxDistance)) :
                ev' = [NoEval EXCEPT !.pc = "found", !.userId = userId,
                                     !.maxDistance = maxDistance, !.limit = limit,
                                     !.users = users,
                                     !.potentialMatches = potentialMatches,
                                     !.found = FindMatches(potentialMatches, limit)]
    /\ UNCHANGED <<routeVars, rlVars>>

EvNext ==
    \/ CheckPair
    \/ Calculate
    \/ Analyze
    \/ Detail
    \/ Discover

EvalSpec == Init /\ [][EvNext]_vars

TypeOK ==
    /\ issued \in 0..MaxActions
    /\ \A s \in Slots : req[s].pc \in
          {"idle", "find", "compat", "save", "enrich", "save2", "done"}
    /\ \A i \in 1..Len(matches) :
          /\ matches[i].id = i
          /\ matches[i].status \in {"pending", "mutual", "rejected"}
          /\ matches[i].user1Action \in Actions \cup {Unset}
          /\ matches[i].user2Action \in Actions \cup {Unset}

\* ------------------------------------------------------------ properties

SamePair(d, e) ==
    \/ (d.user1 = e.user1 /\ d.user2 = e.user2)
    \/ (d.user1 = e.user2 /\ d.user2 = e.user1)

\* actionOf(u) in a document
ActionOf(d, u) == IF d.user1 = u THEN d.user1Action ELSE d.user2Action

\* the slot of the side that did not submit log entry e
OtherAction(e) ==
    IF e.rec.user1 = e.user THEN e.rec.user2Action ELSE e.rec.user1Action

Positive(a) == a \in {"like", "super_like"}

\* C1: for every unordered pair of users, under every interleaving of
\* concurrent submissions, at most one Match document is persisted.
C1_OneRecordPerPair ==
    \A i, j \in 1..Len(matches) :
        SamePair(matches[i], matches[j]) => i = j

\* C2: lookup-or-create plus mutation is atomic, so the persisted document
\* is the result of some serial order of the submissions.  In every serial
\* order a document whose two slots both hold like is mutual, so once all
\* submissions are answered such a document must be mutual.
C2_ConcurrentLikesMutual ==
    InFlight = {} =>
        \A i \in 1..Len(matches) :
            (matches[i].user1Action = "like" /\ matches[i].user2Action = "like")
                => matches[i].status = "mutual"

\* C3: after an action is recorded, if both slots hold a positive action
\* (like or super_like, in any combination) the status is mutual.
C3_PositivePairMutual ==
    \A k \in 1..Len(hist) :
        (Positive(hist[k].rec.user1Action) /\ Positive(hist[k].rec.user2Action))
            => hist[k].rec.status = "mutual"

\* C4: on a pair without a document, A:like then B:like and B:like then
\* A:like, submitted one after the other, both leave the document mutual.
C4_LikeLikeCommutes ==
    (/\ Len(hist) >= 2
     /\ hist[1].created
     /\ hist[1].user # hist[2].user
     /\ hist[1].action = "like"
     /\ hist[2].action = "like")
        => hist[2].rec.status = "mutual"

C4_Witness ==
    /\ Len(hist) = 2
    /\ hist[1].created /\ hist[1].user = "B" /\ hist[1].action = "like"
    /\ ~hist[2].created /\ hist[2].user = "A" /\ hist[2].action = "like"
    /\ hist[1].rec.status = "pending"
    /\ matches[1].status = "mutual"

\* C5: once a document is rejected, no later action makes it pending or
\* mutual.
C5_RejectedTerminal ==
    [][\A i \in 1..Len(matches) :
          matches[i].status = "rejected" => matches'[i].status = "rejected"]_vars

\* C6: once a document is mutual, no later action (a pass included)
\* changes its status.
C6_MutualAbsorbing ==
    [][\A i \in 1..Len(matches) :
          matches[i].status = "mutual" => matches'[i].status = "mutual"]_vars

\* C7: a pass recorded while the other side's slot is not like leaves the
\* document rejected, whether the pass created the document or found it.
C7_PassRejects ==
    \A k \in 1..Len(hist) :
        (hist[k].action = "pass" /\ OtherAction(hist[k]) # "like")
            => hist[k].rec.status = "rejected"

C7_Witness ==
    \E j, k \in 1..Len(hist) :
        /\ hist[j].action = "pass" /\ hist[j].created
        /\ hist[j].rec.status = "rejected"
        /\ hist[k].action = "pass" /\ ~hist[k].created
        /\ hist[k].user # hist[j].user
        /\ OtherAction(hist[k]) = "super_like"
        /\ hist[k].rec.status = "rejected"

\* C8: the status is a function of the two action slots: any two documents
\* persisted in the course of sequential submissions that hold the same
\* (actionOf(A), actionOf(B)) hold the same status.
C8_StatusFunctionOfActions ==
    \A j, k \in 1..Len(hist) :
        (\A u \in Users : ActionOf(hist[j].rec, u) = ActionOf(hist[k].rec, u))
            => hist[j].rec.status = hist[k].rec.status

\* The action of request r took the mutual branch ("Check for mutual match").
DroveToMutual(r) ==
    r.match.user1Action = "like" /\ r.match.user2Action = "like"

\* C9: when generateMatchAnalysis fails after an action made the document
\* mutual, the mutual status and both like slots are already in the
\* collection and the failure writes nothing: the collection is unchanged
\* and aiAnalysis is what it was when the document was loaded.
C9_MutualSurvivesEnrichFailure ==
    [][\A s \in Slots :
          (req[s].pc = "enrich" /\ DroveToMutual(req[s]) /\ req'[s].enr = "failed")
              => /\ matches' = matches
                 /\ req'[s].pc = "done"
                 /\ LET d == matches'[req[s].match.id] IN
                       /\ d.status = "mutual"
                       /\ d.user1Action = "like"
                       /\ d.user2Action = "like"
                       /\ d.aiAnalysis = req[s].orig.aiAnalysis]_vars

C9_Witness ==
    \E s \in Slots :
        /\ req[s].pc = "done" /\ req[s].enr = "failed"
        /\ hist[Len(hist)].user = req[s].userId
        /\ LET d == matches[req[s].match.id] IN
              /\ d.status = "mutual"
              /\ d.user1Action = "like" /\ d.user2Action = "like"
              /\ d.aiAnalysis = "absent"

\* C10: a failure of generateMatchAnalysis is not reported to the caller:
\* the request is still answered with match = true.
C10_EnrichFailureNotSurfaced ==
    \A s \in Slots :
        (req[s].pc = "done" /\ req[s].enr = "failed") => req[s].res = "matched"

\* C11: calculateCompatibility is invoked exactly once per pair, by the
\* action that creates the pair's document; later actions on the pair do
\* not invoke it and leave the stored score and band as created.
C11_CompatOncePerPair ==
    /\ calls.compat <= 1
    /\ matches # << >> => calls.compat = 1
    /\ \A k \in 1..Len(hist) :
          LET d == matches[hist[k].rec.id] IN
             /\ hist[k].rec.compatibilityScore = d.compatibilityScore
             /\ hist[k].rec.matchType = d.matchType

\* C12: an action whose target is the acting user is answered with an
\* error; it creates no document, changes none, and calls neither
\* calculateCompatibility nor generateMatchAnalysis.
C12_SelfActionRejected ==
    [][\A s \in Slots :
          (/\ req'[s] # req[s]
           /\ req'[s].userId # ""
           /\ req'[s].userId = req'[s].targetUserId)
              => /\ req'[s].pc = "done"
                 /\ req'[s].res = "400"
                 /\ matches' = matches
                 /\ hist' = hist
                 /\ calls' = calls]_vars

C12_Witness ==
    \E s \in Slots :
        /\ req[s].pc = "done" /\ req[s].res = "400"
        /\ req[s].userId = req[s].targetUserId
        /\ Len(matches) = 1
        /\ calls.compat = 1

\* The band the score s falls in: perfect from 90, excellent from 80,
\* good from 70, potential below.
BandOf(sc) ==
    IF sc >= 90 THEN "perfect"
    ELSE IF sc >= 80 THEN "excellent"
    ELSE IF sc >= 70 THEN "good"
    ELSE "potential"

\* C18: the band stored on a newly created document is the band of the
\* computed final score.
C18_BandOfScore ==
    \A k \in 1..Len(hist) :
        hist[k].created =>
            hist[k].rec.matchType = BandOf(hist[k].rec.compatibilityScore.compatibility)

\* ----------------------------------------------- rate limiter properties

\* number of timestamps of ts in the interval lo..hi
CountIn(ts, lo, hi) ==
    Cardinality({i \in 1..Len(ts) : lo <= ts[i] /\ ts[i] <= hi})

\* the period after which an idle key is to be dropped
IdleMs == WindowMs + 1

\* C13: a call for key k at time now is admitted iff the number of earlier
\* admitted timestamps t of k with t >= now - windowMs is below maxRequests
\* (one exactly windowMs old counts); on admission now is appended.
C13_AdmitIffBelowLimit ==
    obs.called =>
        /\ obs.ok <=> CountIn(obs.prior, obs.at - WindowMs, obs.at) < MaxRequests
        /\ obs.ok => /\ obs.key \in DOMAIN requests
                     /\ requests[obs.key][Len(requests[obs.key])] = obs.at

C15_AdmittedAfterWindow ==
    (/\ obs.called
     /\ obs.prior # << >>
     /\ obs.at - obs.prior[Len(obs.prior)] > WindowMs)
        => obs.ok

C15_Witness ==
    /\ obs.called /\ obs.ok
    /\ obs.deniedBefore
    /\ obs.prior # << >>
    /\ obs.at - obs.prior[Len(obs.prior)] > WindowMs

C17_IdleKeysEvicted ==
    obs.called =>
        \A k \in DOMAIN requests : obs.at - obs.seen[k] <= IdleMs

\* ------------------------------------------- MatchingService properties

\* user u declared deal-breaker f
Flag(u, f) == u.dealBreakers.defined /\ u.dealBreakers[f]

\* user u has the lifestyle fact deal-breaker f is about
Fact(u, f) ==
    IF f = "smoking" THEN u.lifestyle.defined /\ u.lifestyle.smoking
    ELSE IF f = "hasKids" THEN u.hasKids
    ELSE u.hasPets

\* one of the six veto conditions holds for the pair
Veto(a, b) ==
    \E f \in {"smoking", "hasKids", "pets"} :
        \/ Flag(a, f) /\ Fact(b, f)
        \/ Flag(b, f) /\ Fact(a, f)

\* C19: the deal-breaker score is 0 iff one of the six conditions holds
\* and 100 otherwise, and it is the same with the two users swapped.
C19_DealBreakerScore ==
    ev.pc = "checked" =>
        /\ ev.d12 = (IF Veto(ev.user1, ev.user2) THEN 0 ELSE 100)
        /\ ev.d21 = ev.d12

C19_Witness ==
    /\ ev.pc = "checked"
    /\ ev.d12 = 0 /\ ev.d21 = 0
    /\ Flag(ev.user2, "hasKids") /\ Fact(ev.user1, "hasKids")
    /\ \A f \in {"smoking", "hasKids", "pets"} :
          /\ ~Flag(ev.user1, f)
          /\ f # "hasKids" => ~Flag(ev.user2, f)

\* C20: the baseline final score is personality*0.6 + lifestyle*0.3 +
\* dealBreaker*0.1: for given personality and lifestyle scores a veto
\* lowers it by exactly 10 points and leaves their contribution in place.
C20_VetoCostsTenPoints ==
    ev.pc = "evaluated" =>
        LET base == ev.p * 6 + ev.l * 3 IN
           /\ ev.result.compatibilityX10 =
                 base + 100 - (IF Veto(ev.user1, ev.user2) THEN 100 ELSE 0)
           /\ ev.result.compatibilityX10 >= base

C20_Witness ==
    /\ ev.pc = "evaluated"
    /\ Veto(ev.user1, ev.user2)
    /\ ev.p = 100 /\ ev.l = 100
    /\ ev.result.compatibilityX10 = 900

\* C21: the trait score of two profiles is the same in both orders, for
\* the baseline scorer and for the detailed scorer.
C21_TraitScoreSymmetric ==
    ev.pc \in {"analyzed", "detailed"} => ev.s12 = ev.s21

C21_Witness ==
    /\ ev.pc = "analyzed"
    /\ ev.traits1 # ev.traits2
    /\ ~ev.s12.nan
    /\ ev.s12.x100 > 0 /\ ev.s12.x100 < 10000

\* a profile with 50 in the place of every absent trait
Default50(t) == [n \in TraitNames |-> IF t[n] = Absent THEN 50 ELSE t[n]]

\* C22: when a trait is absent from one or both profiles the scorer, at
\* either call site, returns a number between 0 and 100, the one it returns
\* for the profiles with 50 in the place of the absent trait.
C22_AbsentTraitIsFifty ==
    (/\ ev.pc \in {"analyzed", "detailed"}
     /\ \E n \in TraitNames : ev.traits1[n] = Absent \/ ev.traits2[n] = Absent)
        => /\ ~ev.s12.nan
           /\ ev.s12.x100 >= 0 /\ ev.s12.x100 <= 10000
           /\ ev.s12 = (IF ev.pc = "analyzed"
                        THEN AnalyzePersonalityTraits(Default50(ev.traits1),
                                                      Default50(ev.traits2))
                        ELSE CalculatePersonalityCompatibility(
                                 Default50(ev.traits1), Default50(ev.traits2)))

\* C23: calculateCompatibility makes the insight call only for a user whose
\* tier is not free, and when the call fails (error, time limit, malformed
\* answer) it still returns the blended score, with aiInsight null.
C23_InsightOnlyPaidFailureNull ==
    ev.pc = "evaluated" =>
        /\ ev.aiCalled <=> ev.user1.subscriptionTier # "free"
        /\ ~ev.aiCalled => ev.result.aiInsight = "null"
        /\ (ev.aiCalled /\ ev.outcome # "text") =>
              /\ ev.result.aiInsight = "null"
              /\ ev.result.compatibilityX10 = Blend(ev.p, ev.l, ev.d12)

C23_Witness ==
    /\ ev.pc = "evaluated"
    /\ ev.user1.subscriptionTier = "premium"
    /\ ev.aiCalled
    /\ ev.outcome = "timeout"
    /\ ev.result.aiInsight = "null"
    /\ ev.result.compatibilityX10 = 1000

\* The steps of a handler that wait for the database or for
\* calculateCompatibility: these answer.
Responsive ==
    \E s \in Slots :
        \/ FindExisting(s)
        \/ FindNone(s)
        \/ CompatReturn(s)
        \/ Save(s)
        \/ Save2(s)

\* Requests one after the other, every await but the one of
\* generateMatchAnalysis answered in the end.  Nothing is assumed of
\* generateMatchAnalysis: it may never settle, and the handler has no step
\* that gives up waiting for it.
LiveSpec == Init /\ [][SeqNext]_vars /\ WF_vars(Responsive)

\* C24: a request that waits for the match analysis is answered in the
\* end, also when the analysis never arrives.
C24_EnrichmentCallBounded ==
    \A s \in Slots : (req[s].pc = "enrich") ~> (req[s].pc = "done")

\* C25: findMatches returns neither the seeker nor a user farther away
\* than maxDistance, whatever their scores.
C25_NoSelfNoFar ==
    ev.pc = "found" =>
        \A i \in DOMAIN ev.found :
            /\ ev.found[i].id # ev.userId
            /\ ev.found[i].dist <= ev.maxDistance

C25_Witness ==
    /\ ev.pc = "found"
    /\ Len(ev.found) = 1
    /\ ev.limit = 10
    /\ ev.found[1].score = 800
    /\ \E u \in ev.users :
          u.id # ev.userId /\ u.isActive /\ u.dist > ev.maxDistance /\ u.score = 900

\* a comes before b: higher score first, equal scores by identifier
Before(a, b) == a.score > b.score \/ (a.score = b.score /\ a.id < b.id)

\* C26: the result of findMatches is the first limit entries of the
\* candidates with a score above 70, by score descending and, for equal
\* scores, by identifier ascending, whatever the order of the pool.
C26_TopByScoreThenId ==
    ev.pc = "found" =>
        LET surviving == {u \in Find(ev.users, ev.userId, ev.maxDistance) :
                             u.score > 700}
            returned  == {ev.found[i] : i \in DOMAIN ev.found}
        IN  /\ Len(ev.found) = Min(ev.limit, Cardinality(surviving))
            /\ returned \subseteq surviving
            /\ \A i, j \in DOMAIN ev.found :
                  i < j => Before(ev.found[i], ev.found[j])
            /\ \A u \in surviving \ returned :
                  \A i \in DOMAIN ev.found : Before(ev.found[i], u)

\* C27: an action of U on the pair {U,V} leaves V's slot, the score, the
\* band, the two users and every other document as they were, whichever of
\* the two created the document.
C27_ActionWritesOwnSlotAndState ==
    [][\A s \in Slots :
          (req[s].pc \in {"save", "save2"} /\ req'[s].pc # req[s].pc) =>
             LET r  == req[s]
                 id == SavedId(matches, r)
             IN  /\ \A i \in 1..Len(matches) :
                       i # id => matches'[i] = matches[i]
                 /\ r.isNew => ActionOf(matches'[id], r.targetUserId) = Unset
                 /\ ~r.isNew =>
                       /\ ActionOf(matches'[id], r.targetUserId) =
                             ActionOf(matches[id], r.targetUserId)
                       /\ matches'[id].compatibilityScore =
                             matches[id].compatibilityScore
                       /\ matches'[id].matchType = matches[id].matchType
                       /\ matches'[id].user1 = matches[id].user1
                       /\ matches'[id].user2 = matches[id].user2]_vars

C27_Witness ==
    \E k \in 1..Len(hist) :
        /\ ~hist[k].created
        /\ hist[k].user = hist[k].rec.user2
        /\ hist[k].rec.user2Action = "pass"
        /\ hist[k].rec.user1Action = "super_like"
        /\ hist[k].rec.status = "rejected"

\* C28: a call the limiter denies leaves the Map as it was: the key's
\* timestamps and the entries of all other keys.
C28_DeniedRecordsNothing ==
    [][(now' = now /\ obs'.called /\ ~obs'.ok) => requests' = requests]_vars

C28_Witness ==
    /\ obs.called /\ ~obs.ok
    /\ Len(UserRequests(requests, obs.key)) = MaxRequests
    /\ \E q \in Keys \ {obs.key} : Len(UserRequests(requests, q)) > 0

\* C29: whether a call for key k is admitted is decided by the calls
\* admitted for k before it and the time alone, and the call leaves the
\* entry of every other key as it was.
C29_KeysIsolated ==
    [][(now' = now /\ obs'.called) =>
          /\ obs'.ok <=> Admits(ValidRequests(obs'.prior, obs'.at))
          /\ \A q \in Keys \ {obs'.key} :
                /\ q \in DOMAIN requests' <=> q \in DOMAIN requests
                /\ UserRequests(requests', q) = UserRequests(requests, q)]_vars

C29_Witness ==
    /\ obs.called /\ obs.ok
    /\ \E q \in Keys \ {obs.key} :
          /\ obs.denied[q]
          /\ Len(UserRequests(requests, q)) = MaxRequests
          /\ obs.seen[q] = obs.at

\* C30: a request answered without error says match: true exactly when the
\* document it left in the collection is mutual, and then both users of the
\* pair have recorded an action on that document.
C30_MatchedIffMutual ==
    [][\A s \in Slots :
          (req[s].res = "none" /\ req'[s].res \in {"recorded", "matched"}) =>
             LET r  == req'[s]
                 id == r.match.id
             IN  /\ r.res = "matched" <=> matches'[id].status = "mutual"
                 /\ r.res = "matched" =>
                       \A u \in {r.userId, r.targetUserId} :
                           \E k \in 1..Len(hist') :
                               hist'[k].user = u /\ hist'[k].rec.id = id]_vars
====
